---------------------------- MODULE Spec2Model ----------------------------
(***************************************************************************)
(* Model of the configurable vehicle-dynamics engine                       *)
(* (src/app/physics_customizable.py, ConfigurablePhysicsEngine) and of the *)
(* metric extraction that consumes its snapshots                           *)
(* (src/app/physics_improved.py, calculate_performance_metrics).           *)
(*                                                                         *)
(* The code computes in floating point; the model computes in fixed point. *)
(* Units of the integer quantities:                                        *)
(*   time, timestep, delays, durations   ms                                *)
(*   velocity                            mm/s                              *)
(*   distance (accumulated)              um                                *)
(*   acceleration                        mm/s^2                            *)
(*   force                               N        torque        Nm         *)
(*   rpm                                 rev/min                           *)
(*   fractions, multipliers, ratios      1/1000   (1000 = 1.0)             *)
(*   temperatures                        1/1000 degree C                   *)
(*   tire wear                           1/1000000                         *)
(*   boost pressure                      mbar                              *)
(*   fuel                                mg       fuel rates    g/hr       *)
(*   battery state of charge             1/1000000                         *)
(*   snapshot: time ms, distance cm, velocity cm/s, acceleration mm/s^2,   *)
(*             rpm rev/min, power 0.1 kW                                   *)
(***************************************************************************)
EXTENDS Integers, Sequences, FiniteSets, TLC

VARIABLES
    vehicle,     \* self.vehicle: the vehicle specification handed to the constructor
    config,      \* self.config: the physics configuration handed to the constructor
    pc,          \* "new" | "ready" | "running" | "done" | "raised"
    engine,      \* the engine's mutable attributes (set by _initialize_state)
    run,         \* the locals of run_simulation: arguments, time, distance, velocity, gear
    snapshots,   \* the snapshot list run_simulation is building / has returned
    firstRun,    \* the snapshot list the first run of this engine returned
    runs,        \* number of run_simulation calls made on this engine
    calls,       \* number of direct update_battery calls made on this engine
    err,         \* the exception that ended construction or a run ("none" if none)
    peer,        \* a second engine instance built from the same vehicle and config objects
    service      \* a /api/simulate/drag request served without a physics configuration

vars == <<vehicle, config, pc, engine, run, snapshots, firstRun, runs, calls, err, peer,
          service>>

-----------------------------------------------------------------------------
(* Fixed-point helpers *)

Max(a, b) == IF a >= b THEN a ELSE b

Min(a, b) == IF a <= b THEN a ELSE b

Abs(a) == IF a < 0 THEN 0 - a ELSE a

\* Python's round(): to the nearest multiple of unit, ties to the even one
RoundDiv(x, unit) ==
    LET q == x \div unit
        r == x % unit
    IN  IF 2 * r < unit THEN q
        ELSE IF 2 * r > unit THEN q + 1
        ELSE IF q % 2 = 0 THEN q ELSE q + 1

\* floor of the square root, for arguments up to 1000000
ISqrt(n) == CHOOSE k \in 0..1000 : k * k <= n /\ (k + 1) * (k + 1) > n

\* Python's None, for the optional target_distance and the metrics not reached
None == -1

-----------------------------------------------------------------------------
(* Vehicle specifications.  Fields as the engine reads them; gear_ratios is *)
(* the Vehicle.gear_ratios property.  rolling_resistance_coef is in 1/10000. *)

McLarenP1 ==
    [ name |-> "mclaren_p1",
      mass |-> 1490, drag_coefficient |-> 340, frontal_area |-> 1980,
      final_drive |-> 3360, transmission_efficiency |-> 930,
      gear_ratios |-> <<3310, 2050, 1520, 1220, 1020, 870, 740>>,
      electric_torque_nm |-> 260, electric_max_speed_kmh |-> 300,
      idle_rpm |-> 1200, redline_rpm |-> 8500,
      torque_curve |-> << [rpm |-> 1200, torque |-> 450], [rpm |-> 2000, torque |-> 550],
                          [rpm |-> 3000, torque |-> 650], [rpm |-> 4000, torque |-> 720],
                          [rpm |-> 5000, torque |-> 750], [rpm |-> 6000, torque |-> 730],
                          [rpm |-> 7000, torque |-> 710], [rpm |-> 7500, torque |-> 690],
                          [rpm |-> 8000, torque |-> 660], [rpm |-> 8500, torque |-> 630] >>,
      tire_radius |-> 358, rolling_resistance_coef |-> 100 ]

FerrariSF90 ==
    [ name |-> "ferrari_sf90",
      mass |-> 1600, drag_coefficient |-> 360, frontal_area |-> 2020,
      final_drive |-> 3360, transmission_efficiency |-> 940,
      gear_ratios |-> <<3080, 2190, 1630, 1290, 1030, 840, 690, 580>>,
      electric_torque_nm |-> 315, electric_max_speed_kmh |-> 290,
      idle_rpm |-> 1200, redline_rpm |-> 8000,
      torque_curve |-> << [rpm |-> 1200, torque |-> 500], [rpm |-> 2000, torque |-> 600],
                          [rpm |-> 3000, torque |-> 700], [rpm |-> 4000, torque |-> 760],
                          [rpm |-> 5000, torque |-> 800], [rpm |-> 6000, torque |-> 800],
                          [rpm |-> 7000, torque |-> 790], [rpm |-> 7500, torque |-> 770],
                          [rpm |-> 8000, torque |-> 740] >>,
      tire_radius |-> 362, rolling_resistance_coef |-> 95 ]

\* Specs the Vehicle model accepts although the design calls them malformed:
\* the pydantic model puts no length constraint on gears or torque_curve,
\* and the CSV loader's safe_float turns a missing ratio into 0.0.
NoGears == [McLarenP1 EXCEPT !.name = "no_gears", !.gear_ratios = << >>]

EmptyCurve == [McLarenP1 EXCEPT !.name = "empty_curve", !.torque_curve = << >>]

OnePointCurve ==
    [McLarenP1 EXCEPT !.name = "one_point_curve",
                      !.torque_curve = << [rpm |-> 5000, torque |-> 750] >>]

ZeroRatio ==
    [McLarenP1 EXCEPT !.name = "zero_ratio",
                      !.gear_ratios = <<3310, 0, 1520>>]

\* a test vehicle for the closed-form check: flat torque curve, no electric
\* motor, no rolling resistance
FlatTorque ==
    [McLarenP1 EXCEPT !.name = "flat_torque",
                      !.torque_curve = << [rpm |-> 1200, torque |-> 700],
                                          [rpm |-> 5000, torque |-> 700],
                                          [rpm |-> 8500, torque |-> 700] >>,
                      !.electric_torque_nm = 0,
                      !.rolling_resistance_coef = 0]

ValidVehicles == {McLarenP1, FerrariSF90, FlatTorque}

MalformedVehicles == {NoGears, EmptyCurve, OnePointCurve, ZeroRatio}

Vehicles == ValidVehicles \cup MalformedVehicles

\* EnvironmentConditions() defaults: 20 C, sea level, 101.325 kPa (pressure in Pa)
environment ==
    [temperature_celsius |-> 20000, altitude_meters |-> 0, air_pressure_pa |-> 101325]

-----------------------------------------------------------------------------
(* Physics configuration: PhysicsConfig() with the defaults of every field *)
(* the engine reads.                                                       *)

DefaultConfig ==
    [ name |-> "default",
      enable_all_systems |-> TRUE,
      tires |-> [ initial_tire_temp |-> 25000, optimal_tire_temp |-> 85000,
                  max_tire_temp |-> 150000, heating_from_acceleration |-> 2000,
                  heating_from_speed |-> 500, cooling_rate |-> 20,
                  base_friction_coefficient |-> 1300, cold_tire_penalty |-> 300,
                  hot_tire_penalty |-> 300, optimal_temp_window |-> 5000,
                  wear_rate |-> 100, max_wear_grip_loss |-> 300,
                  wear_heating_multiplier |-> 1200, speed_grip_reduction |-> 150,
                  hydroplaning_speed |-> 200000 ],
      weight_transfer |-> [ base_front_weight |-> 400, transfer_coefficient |-> 150,
                            max_rear_weight |-> 850, min_rear_weight |-> 400 ],
      launch_control |-> [ enabled |-> TRUE, rpm_target_percent |-> 650,
                           rpm_variation |-> 50, completion_speed |-> 5000 ],
      turbo |-> [ enabled |-> TRUE, max_boost_pressure |-> 2000, spool_rate |-> 3000,
                  boost_decay_rate |-> 5000, power_multiplier_per_bar |-> 120,
                  min_rpm_for_boost |-> 2000, max_rpm_for_boost |-> 8000,
                  throttle_threshold |-> 500 ],
      drs |-> [ enabled |-> TRUE, min_activation_speed |-> 150000, drag_reduction |-> 150,
                activation_delay |-> 500, deactivation_delay |-> 300 ],
      gearbox |-> [ shift_duration |-> 150, shift_power_loss |-> 300, clutch_slip |-> 150,
                    gear_1_shift_percent |-> 680, gear_2_shift_percent |-> 720,
                    gear_3_shift_percent |-> 760, gear_4_shift_percent |-> 780,
                    gear_5_shift_percent |-> 810, gear_6plus_shift_percent |-> 840,
                    final_gear_shift_percent |-> 950, min_rpm_after_shift |-> 520 ],
      aerodynamics |-> [ drag_multiplier |-> 1000, air_density_multiplier |-> 1000,
                         humidity_factor |-> 980 ],
      fuel |-> [ enabled |-> FALSE, initial_fuel_kg |-> 100000000,
                 consumption_rate_idle |-> 500, consumption_rate_cruise |-> 8000,
                 consumption_rate_full_throttle |-> 45000,
                 fuel_weight_affects_performance |-> TRUE ],
      brakes |-> [ enabled |-> FALSE, initial_brake_temp |-> 100000 ],
      hybrid |-> [ enable_battery_soc |-> FALSE, initial_battery_soc |-> 1000000,
                   battery_capacity_kwh |-> 7500, min_battery_reserve |-> 100000,
                   motor_efficiency |-> 950 ],
      traction_control |-> [ enabled |-> TRUE, intervention_aggression |-> 500 ],
      weather |-> [ track_condition |-> "dry", dry_grip_multiplier |-> 1000,
                    damp_grip_multiplier |-> 850, wet_grip_multiplier |-> 600,
                    snow_grip_multiplier |-> 300, ice_grip_multiplier |-> 100 ] ]

\* PRESET_CONFIGS
PresetArcade ==
    [DefaultConfig EXCEPT !.name = "arcade",
        !.tires.base_friction_coefficient = 1500, !.tires.cold_tire_penalty = 0,
        !.tires.wear_rate = 0,
        !.launch_control.enabled = FALSE, !.turbo.enabled = FALSE,
        !.fuel.enabled = FALSE, !.weather.track_condition = "dry"]

PresetRealistic ==
    [DefaultConfig EXCEPT !.name = "realistic",
        !.tires.base_friction_coefficient = 1300, !.tires.cold_tire_penalty = 150,
        !.tires.wear_rate = 50,
        !.fuel.enabled = TRUE, !.weather.track_condition = "dry"]

PresetMaximum ==
    [DefaultConfig EXCEPT !.name = "maximum",
        !.tires.base_friction_coefficient = 1300, !.tires.cold_tire_penalty = 300,
        !.tires.wear_rate = 100,
        !.fuel.enabled = TRUE, !.brakes.enabled = TRUE,
        !.hybrid.enable_battery_soc = TRUE, !.weather.track_condition = "dry"]

PresetEnduranceRace ==
    [DefaultConfig EXCEPT !.name = "endurance_race",
        !.tires.wear_rate = 500,
        !.fuel.enabled = TRUE, !.fuel.initial_fuel_kg = 80000000,
        !.fuel.consumption_rate_full_throttle = 60000,
        !.brakes.enabled = TRUE]

PresetWetRace ==
    [DefaultConfig EXCEPT !.name = "wet_race",
        !.tires.base_friction_coefficient = 1100, !.tires.optimal_tire_temp = 65000,
        !.weather.track_condition = "wet", !.drs.enabled = FALSE]

PRESET_CONFIGS ==
    {PresetArcade, PresetRealistic, PresetMaximum, PresetEnduranceRace, PresetWetRace}

\* Custom configurations (PhysicsConfig.parse_obj of a request's physics_config):
\* every field is a free float or flag, no field carries a range constraint.
IceTrack ==
    [DefaultConfig EXCEPT !.name = "ice", !.weather.track_condition = "ice",
        !.drs.min_activation_speed = 280000]

NearlyEmptyTank ==
    [DefaultConfig EXCEPT !.name = "nearly_empty_tank",
        !.fuel.enabled = TRUE, !.fuel.initial_fuel_kg = 12000]

LowBattery ==
    [DefaultConfig EXCEPT !.name = "low_battery",
        !.hybrid.enable_battery_soc = TRUE, !.hybrid.initial_battery_soc = 50000]

BatteryNearReserve ==
    [DefaultConfig EXCEPT !.name = "battery_near_reserve",
        !.hybrid.enable_battery_soc = TRUE, !.hybrid.initial_battery_soc = 102000,
        !.drs.min_activation_speed = 60000]

FastSpool ==
    [DefaultConfig EXCEPT !.name = "fast_spool",
        !.turbo.spool_rate = 12000, !.turbo.boost_decay_rate = 30000,
        !.turbo.min_rpm_for_boost = 3000, !.turbo.max_rpm_for_boost = 6000,
        !.drs.activation_delay = 150, !.drs.deactivation_delay = 120,
        !.drs.min_activation_speed = 100000]

\* a wet race on tires pre-heated to their optimal temperature, wear not tracked
WarmWetTires ==
    [PresetWetRace EXCEPT !.name = "warm_wet_tires",
        !.tires.initial_tire_temp = 65000, !.tires.wear_rate = 0]

\* the arcade preset with the drag multiplier set to 0
NoDrag ==
    [PresetArcade EXCEPT !.name = "no_drag", !.aerodynamics.drag_multiplier = 0]

\* an icy track with launch control configured to hand over only at 79 m/s
LateLaunch ==
    [IceTrack EXCEPT !.name = "late_launch", !.launch_control.completion_speed = 79000]

\* tires that wear out within seconds
SoftTires ==
    [DefaultConfig EXCEPT !.name = "soft_tires", !.tires.wear_rate = 500000]

CustomConfigs ==
    {NoDrag, IceTrack, NearlyEmptyTank, LowBattery, BatteryNearReserve, FastSpool, WarmWetTires,
     LateLaunch, SoftTires}

Configs == {DefaultConfig} \cup PRESET_CONFIGS \cup CustomConfigs

-----------------------------------------------------------------------------
(* Physical constants *)

GRAVITY == 9810

AIR_GAS_CONSTANT == 28705

\* 2 * math.pi, in 1/1000
TwoPi == 6283

\* math.exp(-altitude_m / 8400), in 1/1000, for the altitudes of the model
ExpAltitude(altitude_m) == IF altitude_m = 0 THEN 1000 ELSE 836

\* math.sin(dt * 50), in 1/1000, for the timesteps of the model
SinDt50(dt) ==
    CASE dt = 100 -> -959
      [] dt = 250 -> -66
      [] dt = 500 -> -132
      [] OTHER    -> 479

NumGears == Len(vehicle.gear_ratios)

\* gear_ratio * final_drive for gear number `gear` (1-based), in 1/1000
total_ratio(gear) == (vehicle.gear_ratios[gear] * vehicle.final_drive) \div 1000

\* 2 * pi * tire_radius, in mm
Circumference == (TwoPi * vehicle.tire_radius) \div 1000

-----------------------------------------------------------------------------
(* Construction *)

_calculate_air_density ==
    LET temp_kelvin == environment.temperature_celsius \div 10 + 27315
        pressure_pa == (environment.air_pressure_pa
                          * ExpAltitude(environment.altitude_meters)) \div 1000
        density     == (pressure_pa * 1000)
                          \div ((AIR_GAS_CONSTANT * temp_kelvin) \div 10000)
    IN  (((density * config.aerodynamics.air_density_multiplier) \div 1000)
            * config.aerodynamics.humidity_factor) \div 1000

\* the shift percent of the gear with 0-based index i
shift_percent(i) ==
    LET g == config.gearbox
    IN  IF i < 5
        THEN <<g.gear_1_shift_percent, g.gear_2_shift_percent, g.gear_3_shift_percent,
               g.gear_4_shift_percent, g.gear_5_shift_percent>>[i + 1]
        ELSE IF i = NumGears - 1 THEN g.final_gear_shift_percent
        ELSE g.gear_6plus_shift_percent

\* ZeroDivisionError in _calculate_shift_velocities: 60 * total_ratio = 0
ShiftVelocitiesRaise == \E i \in 1..NumGears : total_ratio(i) = 0

_calculate_shift_velocities ==
    [ i \in 1..NumGears |->
        LET shift_rpm == (vehicle.redline_rpm * shift_percent(i - 1)) \div 1000
        IN  (((shift_rpm * Circumference) \div 60) * 1000) \div total_ratio(i) ]

_initialize_state ==
    [ tire_temp             |-> config.tires.initial_tire_temp,
      tire_wear             |-> 0,
      launch_control_active |-> config.launch_control.enabled,
      launch_completed      |-> FALSE,
      boost_pressure        |-> 0,
      boost_active_time     |-> 0,
      drs_active            |-> FALSE,
      drs_deployment        |-> 0,
      is_shifting           |-> FALSE,
      shift_time_remaining  |-> 0,
      current_fuel_kg       |-> IF config.fuel.enabled
                                THEN config.fuel.initial_fuel_kg ELSE 0,
      brake_temp            |-> IF config.brakes.enabled
                                THEN config.brakes.initial_brake_temp ELSE 100000,
      battery_soc           |-> IF config.hybrid.enable_battery_soc
                                THEN config.hybrid.initial_battery_soc ELSE 1000000,
      tc_intervention       |-> 0,
      shift_velocities      |-> _calculate_shift_velocities ]

\* the attributes of an engine object that does not exist (yet)
NoEngine ==
    [ tire_temp |-> 0, tire_wear |-> 0, launch_control_active |-> FALSE,
      launch_completed |-> FALSE, boost_pressure |-> 0, boost_active_time |-> 0,
      drs_active |-> FALSE, drs_deployment |-> 0, is_shifting |-> FALSE,
      shift_time_remaining |-> 0, current_fuel_kg |-> 0, brake_temp |-> 0,
      battery_soc |-> 0, tc_intervention |-> 0, shift_velocities |-> << >> ]

-----------------------------------------------------------------------------
(* Subsystems.  Each operator takes the engine attributes e it reads and, where *)
(* the method mutates self, returns the attributes after the call.              *)

get_current_mass(e) ==
    IF config.fuel.enabled /\ config.fuel.fuel_weight_affects_performance
    THEN vehicle.mass + e.current_fuel_kg \div 1000000
    ELSE vehicle.mass

update_tire_temperature(e, acceleration, velocity_ms, dt) ==
    IF ~config.enable_all_systems THEN e
    ELSE
      LET t == config.tires
          heating_rate0 == ((Abs(acceleration) - 2000) * t.heating_from_acceleration) \div 1000
          heating_rate  == IF e.tire_wear > 300000
                           THEN (heating_rate0 * t.wear_heating_multiplier) \div 1000
                           ELSE heating_rate0
          temp1 == IF Abs(acceleration) > 2000
                   THEN e.tire_temp + (heating_rate * dt) \div 1000
                   ELSE e.tire_temp
          speed_heating == ((velocity_ms \div 100) * t.heating_from_speed) \div 1000
          temp2 == temp1 + (speed_heating * dt) \div 1000
          temp_diff == temp2 - environment.temperature_celsius
          cooling == (temp_diff * t.cooling_rate) \div 1000
          temp3 == temp2 - (cooling * dt) \div 1000
      IN  [e EXCEPT !.tire_temp =
              Max(environment.temperature_celsius, Min(t.max_tire_temp, temp3))]

_get_weather_grip_factor ==
    LET w == config.weather
    IN  CASE w.track_condition = "dry"  -> w.dry_grip_multiplier
          [] w.track_condition = "damp" -> w.damp_grip_multiplier
          [] w.track_condition = "wet"  -> w.wet_grip_multiplier
          [] w.track_condition = "snow" -> w.snow_grip_multiplier
          [] w.track_condition = "ice"  -> w.ice_grip_multiplier
          [] OTHER                      -> 1000

\* the grip factor from temperature and wear alone, without the weather factor
get_tire_grip_factor_dry(e) ==
    LET t == config.tires
        temp_diff == Abs(e.tire_temp - t.optimal_tire_temp)
        max_penalty == IF e.tire_temp < t.optimal_tire_temp
                       THEN t.cold_tire_penalty ELSE t.hot_tire_penalty
        grip == IF temp_diff < t.optimal_temp_window THEN 1000
                ELSE IF temp_diff < 20000
                THEN 1000 - ((temp_diff - t.optimal_temp_window) * 15) \div 1000
                ELSE Max(1000 - max_penalty, 1000 - (temp_diff * 20) \div 1000)
        wear_factor == 1000 - (((e.tire_wear \div 1000) * t.max_wear_grip_loss) \div 1000)
    IN  (grip * wear_factor) \div 1000

get_tire_grip_factor(e) ==
    LET t == config.tires
        temp_diff == Abs(e.tire_temp - t.optimal_tire_temp)
        max_penalty == IF e.tire_temp < t.optimal_tire_temp
                       THEN t.cold_tire_penalty ELSE t.hot_tire_penalty
        grip == IF temp_diff < t.optimal_temp_window THEN 1000
                ELSE IF temp_diff < 20000
                THEN 1000 - ((temp_diff - t.optimal_temp_window) * 15) \div 1000
                ELSE Max(1000 - max_penalty, 1000 - (temp_diff * 20) \div 1000)
        wear_factor == 1000 - (((e.tire_wear \div 1000) * t.max_wear_grip_loss) \div 1000)
    IN  (((grip * wear_factor) \div 1000) * _get_weather_grip_factor) \div 1000

calculate_weight_transfer(acceleration) ==
    IF ~config.enable_all_systems THEN 600
    ELSE
      LET w == config.weight_transfer
          base_rear == 1000 - w.base_front_weight
          transfer  == (acceleration * w.transfer_coefficient) \div GRAVITY
      IN  Max(w.min_rear_weight, Min(w.max_rear_weight, base_rear + transfer))

calculate_max_traction_force(e, velocity_ms, acceleration) ==
    LET t == config.tires
        grip_factor   == get_tire_grip_factor(e)
        rear_weight   == calculate_weight_transfer(acceleration)
        driven_weight == (((get_current_mass(e) * rear_weight) \div 100) * GRAVITY) \div 10000
        speed_factor  == IF velocity_ms > t.hydroplaning_speed
                         THEN 1000 - t.speed_grip_reduction ELSE 1000
        effective_mu  == (((t.base_friction_coefficient * grip_factor) \div 1000)
                            * speed_factor) \div 1000
        max_traction  == (effective_mu * driven_weight) \div 1000
    IN  IF config.traction_control.enabled
        THEN (max_traction
                * (1000 - (e.tc_intervention
                             * config.traction_control.intervention_aggression) \div 1000))
               \div 1000
        ELSE max_traction

\* launch control without the launch_completed latch
simulate_launch_control_unlatched(e, velocity_ms, dt) ==
    LET l == config.launch_control
    IN  IF ~l.enabled
        THEN [active |-> FALSE, rpm |-> 0, engine |-> e]
        ELSE IF velocity_ms > l.completion_speed
        THEN [active |-> FALSE, rpm |-> 0,
              engine |-> [e EXCEPT !.launch_completed = TRUE,
                                   !.launch_control_active = FALSE]]
        ELSE [active |-> TRUE,
              rpm    |-> (vehicle.redline_rpm * l.rpm_target_percent) \div 1000
                           + (SinDt50(dt) * l.rpm_variation) \div 1000,
              engine |-> e]

\* returns <<launch_active, launch_rpm, attributes after the call>>
simulate_launch_control(e, velocity_ms, dt) ==
    LET l == config.launch_control
    IN  IF ~l.enabled \/ e.launch_completed
        THEN [active |-> FALSE, rpm |-> 0, engine |-> e]
        ELSE IF velocity_ms > l.completion_speed
        THEN [active |-> FALSE, rpm |-> 0,
              engine |-> [e EXCEPT !.launch_completed = TRUE,
                                   !.launch_control_active = FALSE]]
        ELSE [active |-> TRUE,
              rpm    |-> (vehicle.redline_rpm * l.rpm_target_percent) \div 1000
                           + (SinDt50(dt) * l.rpm_variation) \div 1000,
              engine |-> e]

\* the boost the turbo is heading for at this rpm and throttle
target_boost(rpm, throttle) ==
    LET t == config.turbo
    IN  IF rpm < t.min_rpm_for_boost \/ rpm > t.max_rpm_for_boost THEN 0
        ELSE IF throttle < t.throttle_threshold THEN 0
        ELSE LET rpm_factor == ((rpm - t.min_rpm_for_boost) * 1000)
                                 \div (vehicle.redline_rpm - t.min_rpm_for_boost)
             IN  (((rpm_factor * throttle) \div 1000) * t.max_boost_pressure) \div 1000

\* the boost update without the final clamp to [0, max_boost_pressure]
update_turbo_boost_unclamped(e, rpm, throttle, dt) ==
    LET t == config.turbo
        target == target_boost(rpm, throttle)
        rate == IF target > e.boost_pressure THEN t.spool_rate ELSE t.boost_decay_rate
        boost_diff == target - e.boost_pressure
        boost == e.boost_pressure + (((boost_diff * rate) \div 1000) * dt) \div 1000
    IN  IF ~t.enabled THEN [e EXCEPT !.boost_pressure = 0]
        ELSE [e EXCEPT !.boost_pressure = boost,
                       !.boost_active_time = IF target > e.boost_pressure
                                             THEN @ + dt ELSE @]

\* the turbo update with the two rates exchanged
update_turbo_boost_rates_swapped(e, rpm, throttle, dt) ==
    LET t == config.turbo
        target == target_boost(rpm, throttle)
        rate == IF target > e.boost_pressure THEN t.boost_decay_rate ELSE t.spool_rate
        boost_diff == target - e.boost_pressure
        boost == e.boost_pressure + (((boost_diff * rate) \div 1000) * dt) \div 1000
    IN  IF ~t.enabled THEN [e EXCEPT !.boost_pressure = 0]
        ELSE [e EXCEPT !.boost_pressure = Max(0, Min(t.max_boost_pressure, boost)),
                       !.boost_active_time = IF target > e.boost_pressure
                                             THEN @ + dt ELSE @]

update_turbo_boost(e, rpm, throttle, dt) ==
    LET t == config.turbo
        target == target_boost(rpm, throttle)
        rate == IF target > e.boost_pressure THEN t.spool_rate ELSE t.boost_decay_rate
        boost_diff == target - e.boost_pressure
        boost == e.boost_pressure + (((boost_diff * rate) \div 1000) * dt) \div 1000
    IN  IF ~t.enabled THEN [e EXCEPT !.boost_pressure = 0]
        ELSE [e EXCEPT !.boost_pressure = Max(0, Min(t.max_boost_pressure, boost)),
                       !.boost_active_time = IF target > e.boost_pressure
                                             THEN @ + dt ELSE @]

get_boost_multiplier(e) ==
    IF ~config.turbo.enabled THEN 1000
    ELSE 1000 + (e.boost_pressure * config.turbo.power_multiplier_per_bar) \div 1000

\* the DRS update that keeps DRS active once it has been activated
update_drs_latched(e, velocity_ms, dt) ==
    LET d == config.drs
        velocity_kmh == (velocity_ms * 36) \div 10
        active == e.drs_active \/ velocity_kmh >= d.min_activation_speed
    IN  IF ~d.enabled THEN [e EXCEPT !.drs_active = FALSE, !.drs_deployment = 0]
        ELSE [e EXCEPT !.drs_active = active,
                       !.drs_deployment =
                           IF active
                           THEN Min(1000, @ + (dt * 1000) \div d.activation_delay)
                           ELSE Max(0, @ - (dt * 1000) \div d.deactivation_delay)]

update_drs(e, velocity_ms, dt) ==
    LET d == config.drs
        velocity_kmh == (velocity_ms * 36) \div 10
        should_activate == velocity_kmh >= d.min_activation_speed
        active == IF should_activate /\ ~e.drs_active THEN TRUE
                  ELSE IF ~should_activate /\ e.drs_active THEN FALSE
                  ELSE e.drs_active
    IN  IF ~d.enabled THEN [e EXCEPT !.drs_active = FALSE, !.drs_deployment = 0]
        ELSE [e EXCEPT !.drs_active = active,
                       !.drs_deployment =
                           IF active
                           THEN Min(1000, @ + (dt * 1000) \div d.activation_delay)
                           ELSE Max(0, @ - (dt * 1000) \div d.deactivation_delay)]

\* the drag coefficient choosing the DRS branch whenever DRS is enabled
get_effective_drag_coefficient_enabled(e) ==
    IF config.drs.enabled
    THEN LET reduction == (config.drs.drag_reduction * e.drs_deployment) \div 1000
         IN  (vehicle.drag_coefficient * (1000 - reduction)) \div 1000
    ELSE (vehicle.drag_coefficient * config.aerodynamics.drag_multiplier) \div 1000

get_effective_drag_coefficient(e) ==
    IF config.drs.enabled /\ e.drs_deployment > 0
    THEN LET reduction == (config.drs.drag_reduction * e.drs_deployment) \div 1000
         IN  (vehicle.drag_coefficient * (1000 - reduction)) \div 1000
    ELSE (vehicle.drag_coefficient * config.aerodynamics.drag_multiplier) \div 1000

\* the fuel update without the floor at zero
update_fuel_unfloored(e, rpm, throttle, dt) ==
    LET f == config.fuel
        rpm_factor == (rpm * 1000) \div vehicle.redline_rpm
        rate_per_hour0 == IF throttle > 900 THEN f.consumption_rate_full_throttle
                          ELSE IF throttle > 300 THEN f.consumption_rate_cruise
                          ELSE f.consumption_rate_idle
        rate_per_hour == (rate_per_hour0 * (500 + rpm_factor \div 2)) \div 1000
        used == (rate_per_hour * dt) \div 3600
    IN  IF ~f.enabled THEN e
        ELSE [e EXCEPT !.current_fuel_kg = @ - used]

update_fuel(e, rpm, throttle, dt) ==
    LET f == config.fuel
        rpm_factor == (rpm * 1000) \div vehicle.redline_rpm
        rate_per_hour0 == IF throttle > 900 THEN f.consumption_rate_full_throttle
                          ELSE IF throttle > 300 THEN f.consumption_rate_cruise
                          ELSE f.consumption_rate_idle
        rate_per_hour == (rate_per_hour0 * (500 + rpm_factor \div 2)) \div 1000
        used == (rate_per_hour * dt) \div 3600
    IN  IF ~f.enabled THEN e
        ELSE [e EXCEPT !.current_fuel_kg = Max(0, @ - used)]

\* the battery update clamped to [0, 1] instead of [min_battery_reserve, 1]
update_battery_to_empty(e, power_kw, dt) ==
    LET h == config.hybrid
        soc_change == (((power_kw * dt) \div 36) * 10) \div h.battery_capacity_kwh
    IN  IF ~h.enable_battery_soc THEN e
        ELSE [e EXCEPT !.battery_soc = Max(0, Min(1000000, @ - soc_change))]

update_battery(e, power_kw, dt) ==
    LET h == config.hybrid
        soc_change == (((power_kw * dt) \div 36) * 10) \div h.battery_capacity_kwh
    IN  IF ~h.enable_battery_soc THEN e
        ELSE [e EXCEPT !.battery_soc =
                 Max(h.min_battery_reserve, Min(1000000, @ - soc_change))]

\* IndexError in interpolate_torque: curve[0] of an empty torque curve
InterpolateTorqueRaises == Len(vehicle.torque_curve) = 0

interpolate_torque(rpm) ==
    LET curve == vehicle.torque_curve
        n == Len(curve)
    IN  IF rpm <= curve[1].rpm THEN curve[1].torque
        ELSE IF rpm >= curve[n].rpm THEN (curve[n].torque * 95) \div 100
        ELSE LET i == CHOOSE j \in 1..(n - 1) :
                         /\ curve[j].rpm <= rpm /\ rpm <= curve[j + 1].rpm
                         /\ \A k \in 1..(j - 1) :
                               ~(curve[k].rpm <= rpm /\ rpm <= curve[k + 1].rpm)
             IN  curve[i].torque
                   + ((rpm - curve[i].rpm) * (curve[i + 1].torque - curve[i].torque))
                       \div (curve[i + 1].rpm - curve[i].rpm)

calculate_electric_torque(e, velocity_ms) ==
    LET h == config.hybrid
        velocity_kmh == (velocity_ms * 36) \div 10
        max_speed == IF vehicle.electric_max_speed_kmh # 0
                     THEN vehicle.electric_max_speed_kmh * 1000 ELSE 200000
        taper_start == max_speed \div 2
        ratio == ((max_speed - velocity_kmh) * 1000) \div (max_speed - taper_start)
        taper_ratio == (ratio * ISqrt(ratio * 1000)) \div 1000
        torque0 == IF velocity_kmh <= taper_start THEN vehicle.electric_torque_nm
                   ELSE (vehicle.electric_torque_nm * taper_ratio) \div 1000
        torque == IF ~h.enable_battery_soc THEN torque0
                  ELSE IF e.battery_soc < h.min_battery_reserve THEN 0
                  ELSE IF e.battery_soc < 300000
                  THEN (torque0 * (((e.battery_soc - h.min_battery_reserve) * 1000)
                                      \div (300000 - h.min_battery_reserve))) \div 1000
                  ELSE torque0
    IN  IF vehicle.electric_torque_nm = 0 THEN 0
        ELSE IF velocity_kmh >= max_speed THEN 0
        ELSE (torque * h.motor_efficiency) \div 1000

\* the rpm of a gear without the idle floor
calculate_rpm_unfloored(e, velocity_ms, gear) ==
    IF gear < 1 \/ gear > NumGears THEN vehicle.idle_rpm
    ELSE LET rpm == (((velocity_ms * total_ratio(gear)) \div 1000) * 60) \div Circumference
             slip == 1000 + (e.shift_time_remaining * config.gearbox.clutch_slip)
                              \div config.gearbox.shift_duration
         IN  IF e.is_shifting THEN (rpm * slip) \div 1000 ELSE rpm

calculate_rpm_from_velocity(e, velocity_ms, gear) ==
    IF gear < 1 \/ gear > NumGears THEN vehicle.idle_rpm
    ELSE IF velocity_ms < 10 THEN vehicle.idle_rpm
    ELSE LET rpm == (((velocity_ms * total_ratio(gear)) \div 1000) * 60) \div Circumference
             slip == 1000 + (e.shift_time_remaining * config.gearbox.clutch_slip)
                              \div config.gearbox.shift_duration
         IN  Max(vehicle.idle_rpm, IF e.is_shifting THEN (rpm * slip) \div 1000 ELSE rpm)

\* the upshift decision from the shift velocity alone, without the check of
\* the next gear's rpm
should_shift_up_by_velocity(e, rpm, gear, velocity_ms) ==
    IF gear >= NumGears \/ e.is_shifting THEN FALSE
    ELSE velocity_ms >= e.shift_velocities[gear]

should_shift_up(e, rpm, gear, velocity_ms) ==
    IF gear >= NumGears \/ e.is_shifting THEN FALSE
    ELSE /\ velocity_ms >= e.shift_velocities[gear]
         /\ calculate_rpm_from_velocity(e, velocity_ms, gear + 1)
               >= (vehicle.redline_rpm * config.gearbox.min_rpm_after_shift) \div 1000

\* returns the gear selected and the attributes after the call
select_gear(e, velocity_ms, current_gear, current_rpm) ==
    IF velocity_ms < 1000 THEN [gear |-> 1, engine |-> e]
    ELSE IF should_shift_up(e, current_rpm, current_gear, velocity_ms)
    THEN [gear   |-> Min(current_gear + 1, NumGears),
          engine |-> [e EXCEPT !.is_shifting = TRUE,
                               !.shift_time_remaining = config.gearbox.shift_duration]]
    ELSE [gear |-> current_gear, engine |-> e]

\* the wheel torque without the transmission efficiency
calculate_wheel_torque_lossless(e, rpm, gear, velocity_ms) ==
    IF gear < 1 \/ gear > NumGears THEN 0
    ELSE LET engine_torque   == (interpolate_torque(rpm) * get_boost_multiplier(e)) \div 1000
             combined_torque == engine_torque + calculate_electric_torque(e, velocity_ms)
         IN  (combined_torque * total_ratio(gear)) \div 1000

\* the wheel torque with the boost multiplier applied to engine plus motor torque
calculate_wheel_torque_boost_combined(e, rpm, gear, velocity_ms) ==
    IF gear < 1 \/ gear > NumGears THEN 0
    ELSE LET combined_torque ==
                 ((interpolate_torque(rpm) + calculate_electric_torque(e, velocity_ms))
                     * get_boost_multiplier(e)) \div 1000
             efficiency == IF e.is_shifting
                           THEN (vehicle.transmission_efficiency
                                   * (1000 - config.gearbox.shift_power_loss)) \div 1000
                           ELSE vehicle.transmission_efficiency
         IN  (((combined_torque * total_ratio(gear)) \div 1000) * efficiency) \div 1000

calculate_wheel_torque(e, rpm, gear, velocity_ms) ==
    IF gear < 1 \/ gear > NumGears THEN 0
    ELSE LET engine_torque   == (interpolate_torque(rpm) * get_boost_multiplier(e)) \div 1000
             combined_torque == engine_torque + calculate_electric_torque(e, velocity_ms)
             efficiency == IF e.is_shifting
                           THEN (vehicle.transmission_efficiency
                                   * (1000 - config.gearbox.shift_power_loss)) \div 1000
                           ELSE vehicle.transmission_efficiency
         IN  (((combined_torque * total_ratio(gear)) \div 1000) * efficiency) \div 1000

\* returns drive force, drag force and rolling resistance
calculate_forces(e, velocity_ms, gear, rpm, acceleration) ==
    LET wheel_torque == calculate_wheel_torque(e, rpm, gear, velocity_ms)
        drive_force  == (wheel_torque * 1000) \div vehicle.tire_radius
        max_traction == calculate_max_traction_force(e, velocity_ms, acceleration)
        rho_cd_a     == (((_calculate_air_density * get_effective_drag_coefficient(e)) \div 1000)
                            * vehicle.frontal_area) \div 1000
        v_cm         == velocity_ms \div 10
    IN  [ drive_force |-> Min(drive_force, max_traction),
          drag_force  |-> (rho_cd_a * ((v_cm * v_cm) \div 1000)) \div 20000,
          rolling_resistance |->
              (((vehicle.rolling_resistance_coef * get_current_mass(e)) \div 100)
                  * GRAVITY) \div 100000 ]

-----------------------------------------------------------------------------
(* The simulation step *)

\* the shift timer ending the shift without resetting the remaining time
advance_shift_no_reset(e, dt) ==
    IF ~e.is_shifting THEN e
    ELSE IF e.shift_time_remaining - dt <= 0
    THEN [e EXCEPT !.is_shifting = FALSE, !.shift_time_remaining = @ - dt]
    ELSE [e EXCEPT !.shift_time_remaining = @ - dt]

\* the shift timer at the top of simulate_step
advance_shift(e, dt) ==
    IF ~e.is_shifting THEN e
    ELSE IF e.shift_time_remaining - dt <= 0
    THEN [e EXCEPT !.is_shifting = FALSE, !.shift_time_remaining = 0]
    ELSE [e EXCEPT !.shift_time_remaining = @ - dt]

\* net force / current mass
acceleration_of(e, forces) ==
    ((forces.drive_force - forces.drag_force - forces.rolling_resistance) * 1000)
        \div get_current_mass(e)

\* velocity integration with the sign of the velocity change reversed
integrate_velocity_reversed(velocity_ms, acceleration, dt) ==
    Max(0, velocity_ms - (acceleration * dt) \div 1000)

\* velocity integration without the floor at zero
integrate_velocity_unclamped(velocity_ms, acceleration, dt) ==
    velocity_ms + (acceleration * dt) \div 1000

\* velocity integration at the end of simulate_step
integrate_velocity(velocity_ms, acceleration, dt) ==
    Max(0, velocity_ms + (acceleration * dt) \div 1000)

\* simulate_step, last part: tire state and velocity integration
integration_stage(e, velocity_ms, gear, rpm, dt, acceleration) ==
    [ engine       |-> [update_tire_temperature(e, acceleration, velocity_ms, dt)
                          EXCEPT !.tire_wear = @ + (config.tires.wear_rate * dt) \div 1000],
      new_velocity |-> integrate_velocity(velocity_ms, acceleration, dt),
      acceleration |-> acceleration,
      gear         |-> gear,
      rpm          |-> rpm ]

\* simulate_step with one force pass only, at weight-transfer acceleration 0
forces_stage_single_pass(e, velocity_ms, gear, rpm, dt) ==
    integration_stage(e, velocity_ms, gear, rpm, dt,
        acceleration_of(e, calculate_forces(e, velocity_ms, gear, rpm, 0)))

\* simulate_step, the two force passes: the provisional acceleration from the
\* forces at weight-transfer acceleration 0, then the forces once more with it
forces_stage(e, velocity_ms, gear, rpm, dt) ==
    integration_stage(e, velocity_ms, gear, rpm, dt,
        acceleration_of(e,
            calculate_forces(e, velocity_ms, gear, rpm,
                acceleration_of(e, calculate_forces(e, velocity_ms, gear, rpm, 0)))))

\* simulate_step, "Update systems": turbo, DRS, fuel
systems_stage(e, velocity_ms, gear, rpm, dt) ==
    forces_stage(update_fuel(update_drs(update_turbo_boost(e, rpm, 1000, dt),
                                        velocity_ms, dt),
                             rpm, 1000, dt),
                 velocity_ms, gear, rpm, dt)

\* simulate_step, after select_gear: the rpm is recomputed if the gear changed
shift_stage(sg, velocity_ms, gear, rpm, dt) ==
    systems_stage(sg.engine, velocity_ms, sg.gear,
                  IF sg.gear # gear
                  THEN calculate_rpm_from_velocity(sg.engine, velocity_ms, sg.gear)
                  ELSE rpm,
                  dt)

\* simulate_step, without launch control: rpm from velocity, then select_gear
gear_stage(e, velocity_ms, gear, rpm, dt) ==
    shift_stage(select_gear(e, velocity_ms, gear, rpm), velocity_ms, gear, rpm, dt)

\* simulate_step, the launch-control branch
launch_stage(lc, velocity_ms, gear, dt) ==
    IF lc.active
    THEN systems_stage(lc.engine, velocity_ms, 1, lc.rpm, dt)
    ELSE gear_stage(lc.engine, velocity_ms, gear,
                    calculate_rpm_from_velocity(lc.engine, velocity_ms, gear), dt)

\* returns the attributes after the step and (new_velocity, acceleration, gear, rpm)
simulate_step(e, velocity_ms, gear, dt) ==
    launch_stage(simulate_launch_control(advance_shift(e, dt), velocity_ms, dt),
                 velocity_ms, gear, dt)

\* the starting gear taken as the highest gear in the band
_get_gear_for_velocity_highest(e, velocity_ms) ==
    LET InBand(g) ==
            LET rpm == calculate_rpm_from_velocity(e, velocity_ms, g)
            IN  (vehicle.redline_rpm * 500) \div 1000 <= rpm
                  /\ rpm <= (vehicle.redline_rpm * 900) \div 1000
    IN  IF velocity_ms < 1000 THEN 1
        ELSE IF \E g \in 1..NumGears : InBand(g)
        THEN CHOOSE g \in 1..NumGears : InBand(g) /\ \A k \in (g + 1)..NumGears : ~InBand(k)
        ELSE NumGears

_get_gear_for_velocity(e, velocity_ms) ==
    LET InBand(g) ==
            LET rpm == calculate_rpm_from_velocity(e, velocity_ms, g)
            IN  (vehicle.redline_rpm * 500) \div 1000 <= rpm
                  /\ rpm <= (vehicle.redline_rpm * 900) \div 1000
    IN  IF velocity_ms < 1000 THEN 1
        ELSE IF \E g \in 1..NumGears : InBand(g)
        THEN CHOOSE g \in 1..NumGears : InBand(g) /\ \A k \in 1..(g - 1) : ~InBand(k)
        ELSE NumGears

-----------------------------------------------------------------------------
(* Snapshots and metrics *)

QuarterMile == 402336000

TimeSnapshot(time, distance, velocity, acceleration, gear, rpm, power) ==
    [ time         |-> time,
      distance     |-> RoundDiv(distance, 10000),
      velocity     |-> RoundDiv(velocity, 10),
      acceleration |-> acceleration,
      gear         |-> gear,
      rpm          |-> rpm,
      power_kw     |-> power ]

\* index of the first snapshot with speed (cm/s * 36 = km/h in 1/1000) at or
\* above kmh, 0 if none
first_at_speed(snaps, kmh) ==
    IF \E i \in 1..Len(snaps) : snaps[i].velocity * 36 >= kmh
    THEN CHOOSE i \in 1..Len(snaps) :
             /\ snaps[i].velocity * 36 >= kmh
             /\ \A k \in 1..(i - 1) : snaps[k].velocity * 36 < kmh
    ELSE 0

\* index of the first snapshot with distance (cm) at or above cm, 0 if none
first_at_distance(snaps, cm) ==
    IF \E i \in 1..Len(snaps) : snaps[i].distance >= cm
    THEN CHOOSE i \in 1..Len(snaps) :
             /\ snaps[i].distance >= cm
             /\ \A k \in 1..(i - 1) : snaps[k].distance < cm
    ELSE 0

\* the metrics record from the three indices found
metrics_at(snaps, i100, i200, iqm) ==
    [ time_to_100kmh     |-> IF i100 = 0 THEN None ELSE RoundDiv(snaps[i100].time, 10),
      time_to_200kmh     |-> IF i200 = 0 THEN None ELSE RoundDiv(snaps[i200].time, 10),
      quarter_mile_time  |-> IF iqm = 0 THEN None ELSE RoundDiv(snaps[iqm].time, 10),
      quarter_mile_speed |-> IF iqm = 0 THEN None
                             ELSE RoundDiv(snaps[iqm].velocity * 36, 100) ]

\* the metrics with the quarter-mile threshold taken as 1320 (feet) in metres
calculate_performance_metrics_feet(snaps) ==
    metrics_at(snaps, first_at_speed(snaps, 100000), first_at_speed(snaps, 200000),
               first_at_distance(snaps, 132000))

\* the metrics taken from the last snapshot at or above each threshold instead
\* of the first
calculate_performance_metrics_last(snaps) ==
    metrics_at(snaps,
               IF first_at_speed(snaps, 100000) = 0 THEN 0
               ELSE CHOOSE i \in 1..Len(snaps) :
                        /\ snaps[i].velocity * 36 >= 100000
                        /\ \A k \in (i + 1)..Len(snaps) : snaps[k].velocity * 36 < 100000,
               first_at_speed(snaps, 200000),
               first_at_distance(snaps, (QuarterMile \div 1000 + 9) \div 10))

\* a snapshot distance d (cm) is >= 402.336 m iff d * 10 >= 402336 (mm)
calculate_performance_metrics(snaps) ==
    metrics_at(snaps, first_at_speed(snaps, 100000), first_at_speed(snaps, 200000),
               first_at_distance(snaps, (QuarterMile \div 1000 + 9) \div 10))

-----------------------------------------------------------------------------
(* The requests of the model: run_simulation(timestep, max_time,            *)
(* target_distance, start_velocity) as the service passes them on.          *)

RunArgs ==
    { [timestep |-> 500, max_time |-> 16000, target_distance |-> QuarterMile,
       start_velocity |-> 0],
      [timestep |-> 500, max_time |-> 5000, target_distance |-> QuarterMile,
       start_velocity |-> 0],
      [timestep |-> 100, max_time |-> 2500, target_distance |-> None,
       start_velocity |-> 0],
      [timestep |-> 100, max_time |-> 1750, target_distance |-> None,
       start_velocity |-> 24000],
      [timestep |-> 500, max_time |-> 4000, target_distance |-> None,
       start_velocity |-> 80000],
      [timestep |-> 250, max_time |-> 6000, target_distance |-> 86000000,
       start_velocity |-> 20000],
      [timestep |-> 100, max_time |-> 800, target_distance |-> None,
       start_velocity |-> 3000],
      [timestep |-> 100, max_time |-> 200, target_distance |-> None,
       start_velocity |-> 500] }

\* direct calls of update_battery(power_kw, dt) by a user of the engine
BatteryCalls ==
    { [power_kw |-> 120000, dt |-> 1000], [power_kw |-> -100000, dt |-> 1000] }

\* run_simulation calls made on one engine object
MaxRuns == 2

\* direct update_battery calls made on one engine object
MaxBatteryCalls == 1

\* the improved engine's velocities are sampled every VelocityGrid mm/s up to
\* MaxGridIndex * VelocityGrid
VelocityGrid == 500

MaxGridIndex == 120

\* the longest run (ms) of the runs two instances make side by side
MaxPairTime == 4000

NoRun ==
    [ timestep |-> 0, max_time |-> 0, target_distance |-> None, start_velocity |-> 0,
      time |-> 0, distance |-> 0, velocity |-> 0, gear |-> 0 ]

\* the service before a request arrives
NoRequest ==
    [ status |-> "idle", vehicle_id |-> "none", kind |-> "none", velocity |-> 0,
      drs_active |-> FALSE, error |-> "none" ]

\* the second engine instance before it is constructed
NoPeer == [pc |-> "none", engine |-> NoEngine, run |-> NoRun, snapshots |-> << >>]

ArgsOf(r) ==
    [ timestep |-> r.timestep, max_time |-> r.max_time,
      target_distance |-> r.target_distance, start_velocity |-> r.start_velocity ]

-----------------------------------------------------------------------------
(* The state machine *)

Init ==
    /\ vehicle \in Vehicles
    /\ config \in Configs
    /\ pc = "new"
    /\ engine = NoEngine
    /\ run = NoRun
    /\ snapshots = << >>
    /\ firstRun = << >>
    /\ runs = 0
    /\ calls = 0
    /\ err = "none"
    /\ peer = NoPeer
    /\ service = NoRequest

\* ConfigurablePhysicsEngine(vehicle, environment, config) returns an engine
Construct ==
    /\ pc = "new"
    /\ ~ShiftVelocitiesRaise
    /\ engine' = _initialize_state
    /\ pc' = "ready"
    /\ UNCHANGED <<service, peer, vehicle, config, run, snapshots, firstRun, runs, calls, err>>

\* ConfigurablePhysicsEngine(vehicle, environment, config) raises
ConstructRaises ==
    /\ pc = "new"
    /\ ShiftVelocitiesRaise
    /\ pc' = "raised"
    /\ err' = "ZeroDivisionError"
    /\ UNCHANGED <<service, peer, vehicle, config, engine, run, snapshots, firstRun, runs, calls>>

\* the starting gear run_simulation chooses, from the attributes e it finds
starting_gear(e, start_velocity) ==
    IF start_velocity = 0 THEN 1 ELSE _get_gear_for_velocity(e, start_velocity)

\* the attributes after run_simulation's "Reset state"
reset_state(e, start_velocity) ==
    IF start_velocity > 0
    THEN [_initialize_state EXCEPT !.launch_control_active = FALSE]
    ELSE _initialize_state

\* run_simulation up to its loop: the locals, the starting gear, the reset
BeginRun(args) ==
    /\ engine' = reset_state(engine, args.start_velocity)
    /\ run' = [ timestep |-> args.timestep, max_time |-> args.max_time,
                target_distance |-> args.target_distance,
                start_velocity |-> args.start_velocity,
                time |-> 0, distance |-> 0, velocity |-> args.start_velocity,
                gear |-> starting_gear(engine, args.start_velocity) ]
    /\ snapshots' = << >>
    /\ runs' = runs + 1
    /\ pc' = IF 0 <= args.max_time THEN "running" ELSE "done"
    /\ UNCHANGED <<service, peer, vehicle, config, firstRun, calls, err>>

\* the first run_simulation call on a new engine
RunStart ==
    /\ pc = "ready"
    /\ runs = 0
    /\ \E args \in RunArgs : BeginRun(args)

\* a further run_simulation call on the same engine, with the same arguments
RunAgain ==
    /\ pc = "done"
    /\ runs < MaxRuns
    /\ BeginRun(ArgsOf(run))

\* the loop's exits with the while condition written time < max_time
loop_ends_strict(e, time, distance, max_time, target_distance) ==
    \/ config.fuel.enabled /\ e.current_fuel_kg <= 0
    \/ target_distance # None /\ distance >= target_distance
    \/ ~(time < max_time)

\* the loop's exits: the two breaks, and the while condition failing
loop_ends(e, time, distance, max_time, target_distance) ==
    \/ config.fuel.enabled /\ e.current_fuel_kg <= 0
    \/ target_distance # None /\ distance >= target_distance
    \/ ~(time <= max_time)

\* a step of the loop raises
StepRaises == NumGears >= 1 /\ InterpolateTorqueRaises

\* the body of the loop after simulate_step returned st: distance, snapshot, time
loop_body(r, snaps, st) ==
    [ engine   |-> st.engine,
      run      |-> [r EXCEPT
                      !.time = @ + r.timestep,
                      !.distance = @ + ((r.velocity + st.new_velocity) * r.timestep) \div 2,
                      !.velocity = st.new_velocity,
                      !.gear = st.gear],
      snapshot |-> TimeSnapshot(
                      r.time,
                      r.distance + ((r.velocity + st.new_velocity) * r.timestep) \div 2,
                      st.new_velocity, st.acceleration, st.gear, st.rpm,
                      RoundDiv(calculate_forces(st.engine, st.new_velocity, st.gear, st.rpm,
                                                st.acceleration).drive_force
                                 * (st.new_velocity \div 10), 10000)) ]

\* one iteration of run_simulation's loop; the run returns when the loop ends
Step ==
    /\ pc = "running"
    /\ ~StepRaises
    /\ \E st \in {simulate_step(engine, run.velocity, run.gear, run.timestep)} :
       \E out \in {loop_body(run, snapshots, st)} :
       \E ends \in {loop_ends(out.engine, out.run.time, out.run.distance,
                              run.max_time, run.target_distance)} :
           /\ engine' = out.engine
           /\ run' = out.run
           /\ snapshots' = Append(snapshots, out.snapshot)
           /\ pc' = IF ends THEN "done" ELSE "running"
           /\ firstRun' = IF ends /\ runs = 1 THEN Append(snapshots, out.snapshot)
                          ELSE firstRun
    /\ UNCHANGED <<service, peer, vehicle, config, runs, calls, err>>

\* the first iteration raises, and run_simulation with it
StepFails ==
    /\ pc = "running"
    /\ StepRaises
    /\ pc' = "raised"
    /\ err' = "IndexError"
    /\ UNCHANGED <<service, peer, vehicle, config, engine, run, snapshots, firstRun, runs, calls>>

\* a user of the engine calls update_battery between runs
UpdateBattery ==
    /\ pc \in {"ready", "done"}
    /\ calls < MaxBatteryCalls
    /\ \E c \in BatteryCalls : engine' = update_battery(engine, c.power_kw, c.dt)
    /\ calls' = calls + 1
    /\ UNCHANGED <<service, peer, vehicle, config, pc, run, snapshots, firstRun, runs, err>>

Next ==
    \/ Construct
    \/ ConstructRaises
    \/ RunStart
    \/ RunAgain
    \/ Step
    \/ StepFails
    \/ UpdateBattery

Spec == Init /\ [][Next]_vars

-----------------------------------------------------------------------------
(* Two engine instances.  simulate_drag_race builds one engine per vehicle id  *)
(* from the request's vehicle objects and the preset's one PhysicsConfig       *)
(* object; here both instances hold the same vehicle and the same config, and  *)
(* their runs are interleaved step by step.                                    *)

\* the runs the two instances make
PairArgs == {a \in RunArgs : a.max_time <= MaxPairTime}

\* the configurations the two instances share
PairConfigs == PRESET_CONFIGS \cup {NoDrag, FastSpool, WarmWetTires}

\* the locals of run_simulation before its loop, on an engine with attributes e
initial_run(e, args) ==
    [ timestep |-> args.timestep, max_time |-> args.max_time,
      target_distance |-> args.target_distance,
      start_velocity |-> args.start_velocity,
      time |-> 0, distance |-> 0, velocity |-> args.start_velocity,
      gear |-> starting_gear(e, args.start_velocity) ]

\* the loop of run_simulation run to its end without interruption
RECURSIVE run_loop(_, _, _)
run_loop(e, r, snaps) ==
    LET st  == simulate_step(e, r.velocity, r.gear, r.timestep)
        out == loop_body(r, snaps, st)
    IN  IF loop_ends(out.engine, out.run.time, out.run.distance,
                     r.max_time, r.target_distance)
        THEN Append(snaps, out.snapshot)
        ELSE run_loop(out.engine, out.run, Append(snaps, out.snapshot))

\* run_simulation(args) on a newly constructed engine that nothing else touches
run_alone(args) ==
    run_loop(reset_state(_initialize_state, args.start_velocity),
             initial_run(_initialize_state, args), << >>)

\* the first instance's run_simulation call
PairRunStart ==
    /\ pc = "ready"
    /\ runs = 0
    /\ \E args \in PairArgs : BeginRun(args)

\* ConfigurablePhysicsEngine(vehicle, environment, config), a second time
PeerConstruct ==
    /\ pc # "new"
    /\ peer.pc = "none"
    /\ peer' = [peer EXCEPT !.pc = "ready", !.engine = _initialize_state]
    /\ UNCHANGED <<service, vehicle, config, pc, engine, run, snapshots, firstRun, runs, calls, err>>

\* the second instance's run_simulation call, up to its loop
PeerRunStart ==
    /\ peer.pc = "ready"
    /\ \E args \in PairArgs :
          peer' = [ pc        |-> "running",
                    engine    |-> reset_state(peer.engine, args.start_velocity),
                    run       |-> initial_run(peer.engine, args),
                    snapshots |-> << >> ]
    /\ UNCHANGED <<service, vehicle, config, pc, engine, run, snapshots, firstRun, runs, calls, err>>

\* one iteration of the second instance's loop that also writes the shared
\* configuration object
PeerStepWritesConfig ==
    /\ peer.pc = "running"
    /\ \E st \in {simulate_step(peer.engine, peer.run.velocity, peer.run.gear,
                                peer.run.timestep)} :
       \E out \in {loop_body(peer.run, peer.snapshots, st)} :
       \E ends \in {loop_ends(out.engine, out.run.time, out.run.distance,
                              peer.run.max_time, peer.run.target_distance)} :
           peer' = [ pc        |-> IF ends THEN "done" ELSE "running",
                     engine    |-> out.engine,
                     run       |-> out.run,
                     snapshots |-> Append(peer.snapshots, out.snapshot) ]
    /\ config' = [config EXCEPT !.aerodynamics.drag_multiplier = @ + 1000]
    /\ UNCHANGED <<service, vehicle, pc, engine, run, snapshots, firstRun, runs, calls, err>>

\* one iteration of the second instance's loop
PeerStep ==
    /\ peer.pc = "running"
    /\ \E st \in {simulate_step(peer.engine, peer.run.velocity, peer.run.gear,
                                peer.run.timestep)} :
       \E out \in {loop_body(peer.run, peer.snapshots, st)} :
       \E ends \in {loop_ends(out.engine, out.run.time, out.run.distance,
                              peer.run.max_time, peer.run.target_distance)} :
           peer' = [ pc        |-> IF ends THEN "done" ELSE "running",
                     engine    |-> out.engine,
                     run       |-> out.run,
                     snapshots |-> Append(peer.snapshots, out.snapshot) ]
    /\ UNCHANGED <<service, vehicle, config, pc, engine, run, snapshots, firstRun, runs, calls, err>>

InitPair ==
    /\ Init
    /\ vehicle \in ValidVehicles
    /\ config \in PairConfigs

NextPair ==
    \/ Construct
    \/ PairRunStart
    \/ Step
    \/ PeerConstruct
    \/ PeerRunStart
    \/ PeerStep

SpecPair == InitPair /\ [][NextPair]_vars

-----------------------------------------------------------------------------
(* The service without a physics configuration: simulate_drag_race builds an   *)
(* ImprovedPhysicsEngine when use_improved_physics is set and the basic         *)
(* PhysicsEngine otherwise, and calls run_simulation with four keyword          *)
(* arguments.                                                                   *)

\* the ids the vehicle database knows
VehicleIds == {"mclaren_p1", "ferrari_sf90"}

\* the ids a request may carry
RequestedIds == VehicleIds \cup {"unknown_id"}

\* the keyword arguments simulate_drag_race passes to run_simulation
HandlerKeywords == {"timestep", "max_time", "target_distance", "start_velocity"}

\* the parameters of the basic PhysicsEngine.run_simulation
BasicRunSimulationParameters == {"timestep", "max_time"}

\* the parameters of ImprovedPhysicsEngine.run_simulation
ImprovedRunSimulationParameters ==
    {"timestep", "max_time", "target_distance", "start_velocity"}

\* ImprovedPhysicsEngine.drs_min_speed = 150 / 3.6, in thousandths
drs_min_speed == 41667

\* the velocities (mm/s) at which the improved engine's steps call update_drs
ImprovedVelocities == {k * VelocityGrid : k \in 0..MaxGridIndex}

\* ImprovedPhysicsEngine.update_drs: the value of drs_active after the call
ImprovedPhysicsEngine_update_drs(velocity_ms, is_straight, drs_available) ==
    LET velocity_kmh == (velocity_ms * 36) \div 10
    IN  velocity_kmh >= drs_min_speed /\ is_straight /\ drs_available

\* a request arrives
ReceiveRequest ==
    /\ service.status = "idle"
    /\ \E id \in RequestedIds : \E use_improved_physics \in BOOLEAN :
          service' = [NoRequest EXCEPT
                        !.status = "received", !.vehicle_id = id,
                        !.kind = IF use_improved_physics THEN "improved" ELSE "basic"]
    /\ UNCHANGED <<vehicle, config, pc, engine, run, snapshots, firstRun, runs, calls, err,
                   peer>>

\* db.get_vehicle and the engine's constructor; an unknown id raises ValueError,
\* which the handler turns into a 404
GetVehicle ==
    /\ service.status = "received"
    /\ service' = IF service.vehicle_id \in VehicleIds
                  THEN [service EXCEPT !.status = "engine_built"]
                  ELSE [service EXCEPT !.status = "http_404", !.error = "ValueError"]
    /\ UNCHANGED <<vehicle, config, pc, engine, run, snapshots, firstRun, runs, calls, err,
                   peer>>

\* engine.run_simulation(timestep=, max_time=, target_distance=, start_velocity=)
\* on the basic engine; an exception becomes a 500
RunBasic ==
    /\ service.status = "engine_built"
    /\ service.kind = "basic"
    /\ service' = IF HandlerKeywords \subseteq BasicRunSimulationParameters
                  THEN [service EXCEPT !.status = "http_200"]
                  ELSE [service EXCEPT !.status = "http_500", !.error = "TypeError"]
    /\ UNCHANGED <<vehicle, config, pc, engine, run, snapshots, firstRun, runs, calls, err,
                   peer>>

\* a step of the improved engine's run: update_drs(velocity_ms, is_straight=True)
RunImprovedStep ==
    /\ service.status \in {"engine_built", "running"}
    /\ service.kind = "improved"
    /\ HandlerKeywords \subseteq ImprovedRunSimulationParameters
    /\ \E v \in ImprovedVelocities :
          service' = [service EXCEPT
                        !.status = "running", !.velocity = v,
                        !.drs_active = ImprovedPhysicsEngine_update_drs(v, TRUE, TRUE)]
    /\ UNCHANGED <<vehicle, config, pc, engine, run, snapshots, firstRun, runs, calls, err,
                   peer>>

\* the improved engine's run returns and the handler answers
RespondImproved ==
    /\ service.status = "running"
    /\ service' = [service EXCEPT !.status = "http_200"]
    /\ UNCHANGED <<vehicle, config, pc, engine, run, snapshots, firstRun, runs, calls, err,
                   peer>>

InitService ==
    /\ Init
    /\ vehicle = McLarenP1
    /\ config = DefaultConfig

NextService ==
    \/ ReceiveRequest
    \/ GetVehicle
    \/ RunBasic
    \/ RunImprovedStep
    \/ RespondImproved

SpecService == InitService /\ [][NextService]_vars

-----------------------------------------------------------------------------
(* Properties of run_simulation *)

\* C1: a run_simulation call repeated with the same arguments on an engine
\* that has already finished a run returns the snapshot sequence of the first
\* call: all mutable state is reset before the new run reads any of it.
C1_RepeatedRunIdentical ==
    (pc = "done" /\ runs = 2) => snapshots = firstRun

\* C2, as stated: the velocity after each step is >= the velocity before it,
\* for every vehicle, configuration and start velocity.
C2_VelocityNonDecreasing ==
    [][(vehicle \in ValidVehicles /\ pc = "running" /\ pc' \in {"running", "done"})
          => run'.velocity >= run.velocity]_vars

\* C2, amended: the velocity after a step is >= the velocity before it when
\* the step's acceleration is >= 0, and <= it when the acceleration is negative
\* (drag and rolling resistance exceed the traction-limited drive force).
C2_VelocityFollowsAcceleration ==
    [][(pc = "running" /\ pc' \in {"running", "done"})
          => /\ snapshots'[Len(snapshots')].acceleration >= 0
                    => run'.velocity >= run.velocity
             /\ snapshots'[Len(snapshots')].acceleration < 0
                    => run'.velocity <= run.velocity]_vars

\* C2: a valid vehicle on a low-grip track has slowed down below its start velocity
C2_SlowedDown ==
    /\ pc \in {"running", "done"}
    /\ vehicle \in ValidVehicles
    /\ Len(snapshots) > 0
    /\ snapshots[Len(snapshots)].acceleration < 0
    /\ 0 < run.velocity
    /\ run.velocity < run.start_velocity

\* C3: the velocity is never negative after a step, and the accumulated
\* distance, which advances by the average of old and new velocity times the
\* timestep, never decreases from one snapshot to the next.
C3_VelocityNonNegativeDistanceMonotone ==
    [][(pc = "running" /\ pc' \in {"running", "done"})
          => /\ run'.velocity >= 0
             /\ snapshots'[Len(snapshots')].velocity >= 0
             /\ run'.distance
                  = run.distance + ((run.velocity + run'.velocity) * run.timestep) \div 2
             /\ run'.distance >= run.distance
             /\ Len(snapshots) > 0
                    => snapshots'[Len(snapshots')].distance
                          >= snapshots[Len(snapshots)].distance]_vars

\* C3: a step with negative acceleration has left the vehicle at velocity 0
C3_FlooredAtZero ==
    /\ pc \in {"running", "done"}
    /\ Len(snapshots) > 0
    /\ snapshots[Len(snapshots)].acceleration < 0
    /\ run.velocity = 0

\* C4, as stated: a run with target_distance = 402.336 ends with a last
\* snapshot at distance >= 402.336 and metrics with a quarter-mile time and a
\* quarter-mile speed, for every max_time.
C4_QuarterMileAlwaysReached ==
    (vehicle \in ValidVehicles /\ pc = "done" /\ run.target_distance = QuarterMile)
        => /\ snapshots[Len(snapshots)].distance * 10 >= QuarterMile \div 1000
           /\ calculate_performance_metrics(snapshots).quarter_mile_time # None
           /\ calculate_performance_metrics(snapshots).quarter_mile_speed # None

\* C4, amended: a run with target_distance = 402.336 that ends with the elapsed
\* time still within max_time and with fuel left ends with a last snapshot at
\* distance >= 402.336 and metrics with a quarter-mile time and speed.
C4_QuarterMileReachedInTime ==
    (/\ pc = "done"
     /\ run.target_distance = QuarterMile
     /\ run.time <= run.max_time
     /\ ~(config.fuel.enabled /\ engine.current_fuel_kg <= 0))
        => /\ snapshots[Len(snapshots)].distance * 10 >= QuarterMile \div 1000
           /\ calculate_performance_metrics(snapshots).quarter_mile_time # None
           /\ calculate_performance_metrics(snapshots).quarter_mile_speed # None

\* C4: a quarter-mile run has ended on the target distance, within max_time
C4_QuarterMileRunEnded ==
    /\ pc = "done"
    /\ run.target_distance = QuarterMile
    /\ run.time <= run.max_time
    /\ ~(config.fuel.enabled /\ engine.current_fuel_kg <= 0)
    /\ run.distance >= QuarterMile
    /\ calculate_performance_metrics(snapshots).quarter_mile_time > 0

\* C5, as stated: the loop takes at most floor(max_time/timestep)+1 steps with
\* one snapshot per step, and no snapshot other than the last one has a
\* distance >= target_distance or was recorded with the fuel at zero.
C5_NoEarlierSnapshotAtTarget ==
    pc \in {"running", "done"}
        => /\ Len(snapshots) <= run.max_time \div run.timestep + 1
           /\ Len(snapshots) * run.timestep = run.time
           /\ (pc = "running" /\ Len(snapshots) > 0 /\ config.fuel.enabled)
                  => engine.current_fuel_kg > 0
           /\ \A i \in 1..(Len(snapshots) - 1) :
                  run.target_distance # None
                      => snapshots[i].distance * 10000 < run.target_distance

\* C5, amended: the loop takes at most floor(max_time/timestep)+1 steps with
\* one snapshot per step; it goes on only while the elapsed time is within
\* max_time, the accumulated distance is below target_distance and fuel is
\* left, and it ends only for one of these reasons; a snapshot other than the
\* last one, whose distance is the accumulated one rounded to 2 decimals,
\* shows less than target_distance + 0.005.
C5_LoopBoundAndExits ==
    pc \in {"running", "done"}
        => /\ Len(snapshots) <= run.max_time \div run.timestep + 1
           /\ Len(snapshots) * run.timestep = run.time
           /\ (pc = "running" /\ Len(snapshots) > 0)
                  => /\ run.time <= run.max_time
                     /\ run.target_distance # None => run.distance < run.target_distance
                     /\ config.fuel.enabled => engine.current_fuel_kg > 0
           /\ pc = "done"
                  => \/ run.time > run.max_time
                     \/ run.target_distance # None /\ run.distance >= run.target_distance
                     \/ config.fuel.enabled /\ engine.current_fuel_kg <= 0
           /\ \A i \in 1..(Len(snapshots) - 1) :
                  run.target_distance # None
                      => snapshots[i].distance * 10000 < run.target_distance + 5000

\* C5: the loop goes on after a snapshot whose rounded distance shows the target
C5_RoundedDistanceShowsTarget ==
    /\ pc = "running"
    /\ run.target_distance # None
    /\ Len(snapshots) > 0
    /\ run.distance < run.target_distance
    /\ snapshots[Len(snapshots)].distance * 10000 >= run.target_distance

\* C6: constructing an engine for a vehicle whose torque curve has fewer than
\* 2 points or whose gear-ratio sequence is empty raises; no engine exists and
\* no run is ever started for it.
C6_MalformedVehicleNeverConstructs ==
    (Len(vehicle.torque_curve) < 2 \/ Len(vehicle.gear_ratios) = 0)
        => pc \in {"new", "raised"} /\ engine = NoEngine /\ runs = 0

\* C7, as stated: with battery tracking enabled the state of charge is within
\* [min_battery_reserve, 1] in every state of the engine, for every configured
\* initial_battery_soc and reserve.
C7_SocNeverBelowReserve ==
    (pc \in {"ready", "running", "done"} /\ config.hybrid.enable_battery_soc)
        => /\ config.hybrid.min_battery_reserve <= engine.battery_soc
           /\ engine.battery_soc <= 1000000

\* C7, amended: with battery tracking enabled and an initial_battery_soc
\* configured within [min_battery_reserve, 1], the state of charge is within
\* [min_battery_reserve, 1] in every state of the engine.
C7_SocWithinReserveGivenInitial ==
    (/\ pc \in {"ready", "running", "done"}
     /\ config.hybrid.enable_battery_soc
     /\ config.hybrid.min_battery_reserve <= config.hybrid.initial_battery_soc
     /\ config.hybrid.initial_battery_soc <= 1000000)
        => /\ config.hybrid.min_battery_reserve <= engine.battery_soc
           /\ engine.battery_soc <= 1000000

\* C7: an update_battery call has drained the battery from above the reserve
\* down to the reserve
C7_DrainedToReserve ==
    /\ pc \in {"ready", "done"}
    /\ calls = 1
    /\ config.hybrid.enable_battery_soc
    /\ config.hybrid.min_battery_reserve < config.hybrid.initial_battery_soc
    /\ engine.battery_soc = config.hybrid.min_battery_reserve

C9_BoostWithinLimits ==
    pc \in {"ready", "running", "done"}
        => /\ 0 <= engine.boost_pressure
           /\ engine.boost_pressure <= config.turbo.max_boost_pressure
           /\ ~config.turbo.enabled => engine.boost_pressure = 0

\* C9: a step has brought the boost pressure to max_boost_pressure
C9_BoostAtMaximum ==
    /\ pc \in {"running", "done"}
    /\ config.turbo.enabled
    /\ Len(snapshots) > 0
    /\ engine.boost_pressure = config.turbo.max_boost_pressure

\* C10: the DRS deployment fraction is within [0, 1] after every operation; a
\* step with DRS enabled leaves DRS active exactly when the speed it starts
\* from, in km/h, is >= min_activation_speed, and moves the deployment by
\* timestep/activation_delay toward 1 if active, by timestep/deactivation_delay
\* toward 0 if not; with DRS disabled it leaves DRS inactive and retracted.
C10_DrsDeploymentRamps ==
    [][/\ 0 <= engine'.drs_deployment
       /\ engine'.drs_deployment <= 1000
       /\ (pc = "running" /\ pc' \in {"running", "done"})
             => /\ config.drs.enabled
                   => /\ engine'.drs_active
                         <=> (run.velocity * 36) \div 10 >= config.drs.min_activation_speed
                      /\ engine'.drs_active
                         => engine'.drs_deployment
                              = Min(1000, engine.drs_deployment
                                          + (run.timestep * 1000) \div config.drs.activation_delay)
                      /\ ~engine'.drs_active
                         => engine'.drs_deployment
                              = Max(0, engine.drs_deployment
                                       - (run.timestep * 1000) \div config.drs.deactivation_delay)
                /\ ~config.drs.enabled
                   => ~engine'.drs_active /\ engine'.drs_deployment = 0]_vars

\* C10: DRS, active from the first step of a run started above the activation
\* speed, has been deactivated again as the vehicle slowed down
C10_DrsDeactivated ==
    /\ pc = "running"
    /\ config.drs.enabled
    /\ Len(snapshots) > 1
    /\ (run.start_velocity * 36) \div 10 >= config.drs.min_activation_speed
    /\ ~engine.drs_active

-----------------------------------------------------------------------------
(* Properties of the step: rpm, grip, forces, gears *)

\* C11, as stated: a step taken at velocity 0 records the vehicle's idle rpm,
\* for every gear and every configuration.
C11_StepAtStandstillRecordsIdle ==
    [][(/\ vehicle \in ValidVehicles
        /\ pc = "running" /\ pc' \in {"running", "done"}
        /\ run.velocity = 0)
          => snapshots'[Len(snapshots')].rpm = vehicle.idle_rpm]_vars

\* C11, amended: calculate_rpm_from_velocity returns the idle rpm at velocity 0
\* for every gear; a step taken at velocity 0 records the idle rpm when launch
\* control is disabled or completed, and otherwise records the launch target
\* rpm (with its variation) in gear 1.
C11_IdleUnlessLaunching ==
    [][(pc = "running" /\ pc' \in {"running", "done"} /\ run.velocity = 0)
          => /\ \A g \in 0..(NumGears + 1) :
                   calculate_rpm_from_velocity(engine, 0, g) = vehicle.idle_rpm
             /\ (~config.launch_control.enabled \/ engine.launch_completed)
                   => snapshots'[Len(snapshots')].rpm = vehicle.idle_rpm
             /\ (config.launch_control.enabled /\ ~engine.launch_completed)
                   => /\ snapshots'[Len(snapshots')].rpm
                           = (vehicle.redline_rpm
                                * config.launch_control.rpm_target_percent) \div 1000
                              + (SinDt50(run.timestep)
                                   * config.launch_control.rpm_variation) \div 1000
                      /\ snapshots'[Len(snapshots')].gear = 1]_vars

\* C11: a run from standstill without launch control has recorded the idle rpm
\* in its first step
C11_IdleRecorded ==
    /\ vehicle \in ValidVehicles
    /\ ~config.launch_control.enabled
    /\ run.start_velocity = 0
    /\ Len(snapshots) > 0
    /\ snapshots[1].rpm = vehicle.idle_rpm

\* C12, as stated: get_tire_grip_factor returns exactly 1.0 whenever the tire
\* wear is 0 and the tire temperature is within optimal_temp_window of
\* optimal_tire_temp, for every track condition and weather multiplier.
C12_GripIsOneInWindow ==
    (/\ pc \in {"ready", "running", "done"}
     /\ engine.tire_wear = 0
     /\ Abs(engine.tire_temp - config.tires.optimal_tire_temp)
           < config.tires.optimal_temp_window)
        => get_tire_grip_factor(engine) = 1000

\* C12, amended: with tire wear 0 and the tire temperature within
\* optimal_temp_window of optimal_tire_temp, get_tire_grip_factor returns the
\* grip multiplier of the configured track condition (1.0 for an unknown
\* condition, and for "dry" with the default dry multiplier).
C12_GripIsWeatherFactorInWindow ==
    (/\ pc \in {"ready", "running", "done"}
     /\ engine.tire_wear = 0
     /\ Abs(engine.tire_temp - config.tires.optimal_tire_temp)
           < config.tires.optimal_temp_window)
        => get_tire_grip_factor(engine) = _get_weather_grip_factor

\* C12: unworn tires at optimal temperature on a wet track, a step into a run
C12_WarmTiresOnWetTrack ==
    /\ pc = "running"
    /\ Len(snapshots) > 0
    /\ config.weather.track_condition = "wet"
    /\ engine.tire_wear = 0
    /\ Abs(engine.tire_temp - config.tires.optimal_tire_temp)
          < config.tires.optimal_temp_window
    /\ get_tire_grip_factor(engine) = config.weather.wet_grip_multiplier

C14_MetricsOfFirstQualifyingSnapshot ==
    pc \in {"running", "done"}
        => /\ IF \A i \in 1..Len(snapshots) : snapshots[i].velocity * 36 < 100000
              THEN calculate_performance_metrics(snapshots).time_to_100kmh = None
              ELSE \E i \in 1..Len(snapshots) :
                      /\ snapshots[i].velocity * 36 >= 100000
                      /\ \A k \in 1..(i - 1) : snapshots[k].velocity * 36 < 100000
                      /\ calculate_performance_metrics(snapshots).time_to_100kmh
                           = RoundDiv(snapshots[i].time, 10)
           /\ IF \A i \in 1..Len(snapshots) : snapshots[i].velocity * 36 < 200000
              THEN calculate_performance_metrics(snapshots).time_to_200kmh = None
              ELSE \E i \in 1..Len(snapshots) :
                      /\ snapshots[i].velocity * 36 >= 200000
                      /\ \A k \in 1..(i - 1) : snapshots[k].velocity * 36 < 200000
                      /\ calculate_performance_metrics(snapshots).time_to_200kmh
                           = RoundDiv(snapshots[i].time, 10)
           /\ IF \A i \in 1..Len(snapshots) : snapshots[i].distance * 10 < 402336
              THEN /\ calculate_performance_metrics(snapshots).quarter_mile_time = None
                   /\ calculate_performance_metrics(snapshots).quarter_mile_speed = None
              ELSE \E i \in 1..Len(snapshots) :
                      /\ snapshots[i].distance * 10 >= 402336
                      /\ \A k \in 1..(i - 1) : snapshots[k].distance * 10 < 402336
                      /\ calculate_performance_metrics(snapshots).quarter_mile_time
                           = RoundDiv(snapshots[i].time, 10)
                      /\ calculate_performance_metrics(snapshots).quarter_mile_speed
                           = RoundDiv(snapshots[i].velocity * 36, 100)
           /\ calculate_performance_metrics(snapshots).quarter_mile_speed = None
                 <=> calculate_performance_metrics(snapshots).quarter_mile_time = None

\* C14: a finished run with several snapshots above 100 km/h, a quarter-mile
\* snapshot, and no snapshot at 200 km/h
C14_SeveralSnapshotsQualify ==
    /\ pc = "done"
    /\ \E i \in 1..Len(snapshots) : \E j \in (i + 1)..Len(snapshots) :
          snapshots[i].velocity * 36 >= 100000 /\ snapshots[j].velocity * 36 >= 100000
    /\ calculate_performance_metrics(snapshots).time_to_100kmh > 0
    /\ calculate_performance_metrics(snapshots).time_to_200kmh = None
    /\ calculate_performance_metrics(snapshots).quarter_mile_time > 0

\* C15: neither construction nor any step raises a division-by-zero error: a
\* vehicle spec with a zero gear ratio yields a defined result, never an
\* exception.
C15_ZeroRatioNeverRaises ==
    (\E i \in 1..NumGears : vehicle.gear_ratios[i] = 0)
        => pc # "raised" /\ err # "ZeroDivisionError"

\* C17: downshifts are never initiated: the gear after a step is never lower
\* than the gear before it, the first step after the starting gear was chosen
\* included, for every start velocity and configuration.
C17_GearNeverDecreases ==
    [][(vehicle \in ValidVehicles /\ pc = "running" /\ pc' \in {"running", "done"})
          => run'.gear >= run.gear]_vars

\* C18: a step raises the gear only when, after the shift timer was advanced,
\* no shift is in progress, the current gear is not the last one, the velocity
\* has reached the current gear's shift velocity and the next gear's rpm at
\* that velocity is at least min_rpm_after_shift times redline; the gear then
\* is the current gear + 1, within the gear range, the engine is shifting and
\* the remaining shift time is shift_duration.
C18_UpshiftOnlyWhenDue ==
    [][(/\ vehicle \in ValidVehicles
        /\ pc = "running" /\ pc' \in {"running", "done"}
        /\ run'.gear > run.gear)
          => /\ ~advance_shift(engine, run.timestep).is_shifting
             /\ run.gear < NumGears
             /\ run.velocity >= engine.shift_velocities[run.gear]
             /\ calculate_rpm_from_velocity(advance_shift(engine, run.timestep),
                                            run.velocity, run.gear + 1)
                  >= (vehicle.redline_rpm * config.gearbox.min_rpm_after_shift) \div 1000
             /\ run'.gear = run.gear + 1
             /\ run'.gear <= NumGears
             /\ engine'.is_shifting
             /\ engine'.shift_time_remaining = config.gearbox.shift_duration]_vars

\* C18: an upshift has just been made although the velocity had passed the
\* shift velocity of the gear below a step earlier
C18_UpshiftJustMade ==
    /\ pc = "running"
    /\ run.gear > 1
    /\ engine.is_shifting
    /\ engine.shift_time_remaining = config.gearbox.shift_duration
    /\ Len(snapshots) > 1
    /\ snapshots[Len(snapshots) - 1].gear = run.gear - 1
    /\ snapshots[Len(snapshots) - 1].velocity * 10 >= engine.shift_velocities[run.gear - 1]

C20_NoLaunchAfterRollingStart ==
    [][(/\ vehicle \in ValidVehicles
        /\ pc = "running" /\ pc' \in {"running", "done"}
        /\ run.start_velocity > 0)
          => ~simulate_launch_control(engine, run.velocity, run.timestep).active]_vars

\* C21: while launch control is active (enabled, not completed, velocity not
\* above the completion speed) a step reports gear 1 and the launch target rpm
\* plus dither and initiates no shift; a step that sees a velocity above the
\* completion speed completes launch control, and from then on no step of the
\* run is a launch step, whatever the velocity.
C21_LaunchHoldsThenLatchesOff ==
    [][(vehicle \in ValidVehicles /\ pc = "running" /\ pc' \in {"running", "done"})
          => /\ (/\ config.launch_control.enabled
                 /\ ~engine.launch_completed
                 /\ run.velocity <= config.launch_control.completion_speed)
                   => /\ run'.gear = 1
                      /\ snapshots'[Len(snapshots')].gear = 1
                      /\ snapshots'[Len(snapshots')].rpm
                           = (vehicle.redline_rpm
                                * config.launch_control.rpm_target_percent) \div 1000
                             + (SinDt50(run.timestep)
                                  * config.launch_control.rpm_variation) \div 1000
                      /\ ~engine'.is_shifting
                      /\ ~engine'.launch_completed
             /\ (/\ config.launch_control.enabled
                 /\ run.velocity > config.launch_control.completion_speed)
                   => engine'.launch_completed
             /\ engine.launch_completed
                   => /\ engine'.launch_completed
                      /\ run'.gear >= run.gear
                      /\ snapshots'[Len(snapshots')].rpm
                           = calculate_rpm_from_velocity(engine', run.velocity,
                                                         run'.gear)]_vars

\* C21: launch control was completed, the velocity fell back to the completion
\* speed or below, and a further step was taken in a higher gear
C21_FellBackAfterLaunch ==
    /\ pc \in {"running", "done"}
    /\ config.launch_control.enabled
    /\ engine.launch_completed
    /\ Len(snapshots) >= 2
    /\ snapshots[Len(snapshots) - 1].velocity * 10 <= config.launch_control.completion_speed
    /\ snapshots[Len(snapshots)].gear > 1

C23_StepDrawsBatteryDown ==
    [][(/\ vehicle \in ValidVehicles
        /\ pc = "running" /\ pc' \in {"running", "done"}
        /\ config.hybrid.enable_battery_soc
        /\ calculate_electric_torque(engine, run.velocity) > 0
        /\ engine.battery_soc > config.hybrid.min_battery_reserve)
          => engine'.battery_soc < engine.battery_soc]_vars

\* C24, as stated: the wheel torque is (engine torque + electric-motor torque)
\* times the boost multiplier times the total ratio times the transmission
\* efficiency.
C24_BoostOnCombinedTorque ==
    (vehicle \in ValidVehicles /\ pc = "running" /\ ~engine.is_shifting)
        => LET rpm      == calculate_rpm_from_velocity(engine, run.velocity, run.gear)
               combined == interpolate_torque(rpm)
                             + calculate_electric_torque(engine, run.velocity)
               boosted  == (combined * get_boost_multiplier(engine)) \div 1000
               geared   == (boosted * total_ratio(run.gear)) \div 1000
           IN  calculate_wheel_torque(engine, rpm, run.gear, run.velocity)
                 = (geared * vehicle.transmission_efficiency) \div 1000

\* C24, amended: the wheel torque is (engine torque times the boost multiplier
\* + electric-motor torque) times the total ratio times the transmission
\* efficiency, the efficiency being reduced by shift_power_loss while a shift
\* is in progress.
C24_BoostOnEngineTorqueOnly ==
    (vehicle \in ValidVehicles /\ pc = "running")
        => LET rpm        == calculate_rpm_from_velocity(engine, run.velocity, run.gear)
               boosted    == (interpolate_torque(rpm) * get_boost_multiplier(engine))
                                \div 1000
               combined   == boosted + calculate_electric_torque(engine, run.velocity)
               geared     == (combined * total_ratio(run.gear)) \div 1000
               efficiency == IF engine.is_shifting
                             THEN (vehicle.transmission_efficiency
                                     * (1000 - config.gearbox.shift_power_loss)) \div 1000
                             ELSE vehicle.transmission_efficiency
           IN  calculate_wheel_torque(engine, rpm, run.gear, run.velocity)
                 = (geared * efficiency) \div 1000

\* C24: a run in progress with the turbo boosting and the electric motor
\* delivering torque
C24_BoostedHybrid ==
    /\ pc = "running"
    /\ vehicle \in ValidVehicles
    /\ Len(snapshots) > 0
    /\ get_boost_multiplier(engine) > 1000
    /\ calculate_electric_torque(engine, run.velocity) > 0

\* C25, as stated: the effective drag coefficient is the base Cd reduced by
\* drag_reduction * deployment whenever DRS is enabled, at deployment 0 too,
\* and the base Cd times the drag multiplier only when DRS is disabled.
C25_DragReducedWheneverDrsEnabled ==
    (vehicle \in ValidVehicles /\ pc \in {"running", "done"})
        => get_effective_drag_coefficient(engine)
             = IF config.drs.enabled
               THEN (vehicle.drag_coefficient
                       * (1000 - (config.drs.drag_reduction * engine.drs_deployment)
                                    \div 1000)) \div 1000
               ELSE (vehicle.drag_coefficient * config.aerodynamics.drag_multiplier)
                       \div 1000

\* C25, amended: the effective drag coefficient is the base Cd reduced by
\* drag_reduction * deployment when DRS is enabled and the deployment is above
\* 0, and the base Cd times the drag multiplier otherwise: with DRS disabled,
\* and with DRS enabled but fully retracted.
C25_DragReducedWhileDeployed ==
    (vehicle \in ValidVehicles /\ pc \in {"running", "done"})
        => get_effective_drag_coefficient(engine)
             = IF config.drs.enabled /\ engine.drs_deployment > 0
               THEN (vehicle.drag_coefficient
                       * (1000 - (config.drs.drag_reduction * engine.drs_deployment)
                                    \div 1000)) \div 1000
               ELSE (vehicle.drag_coefficient * config.aerodynamics.drag_multiplier)
                       \div 1000

\* C25: DRS is enabled and fully retracted during a run whose configuration
\* has a drag multiplier other than 1
C25_RetractedWithDragMultiplier ==
    /\ pc = "running"
    /\ vehicle \in ValidVehicles
    /\ Len(snapshots) > 0
    /\ config.drs.enabled
    /\ engine.drs_deployment = 0
    /\ config.aerodynamics.drag_multiplier # 1000

\* C26, as stated: each turbo update moves the boost pressure toward the
\* target without passing it, for every timestep and rate: the new boost lies
\* between the old boost and the target (inclusive).
C26_BoostNeverPassesTarget ==
    [][(/\ vehicle \in ValidVehicles
        /\ pc = "running" /\ pc' \in {"running", "done"}
        /\ config.turbo.enabled)
          => \/ /\ engine.boost_pressure <= engine'.boost_pressure
                /\ engine'.boost_pressure
                     <= target_boost(snapshots'[Len(snapshots')].rpm, 1000)
             \/ /\ target_boost(snapshots'[Len(snapshots')].rpm, 1000)
                     <= engine'.boost_pressure
                /\ engine'.boost_pressure <= engine.boost_pressure]_vars

\* C26, amended: each turbo update adds (target - boost) * rate * dt to the
\* boost and clamps the result to [0, max_boost_pressure], with rate spool_rate
\* when the target is above the boost and boost_decay_rate otherwise; the
\* target is 0 outside the rpm window; the new boost lies between the old boost
\* and the target (inclusive) when rate * dt <= 1.
C26_BoostWithinTargetForSmallSteps ==
    [][(/\ vehicle \in ValidVehicles
        /\ pc = "running" /\ pc' \in {"running", "done"}
        /\ config.turbo.enabled)
          => LET rpm    == snapshots'[Len(snapshots')].rpm
                 target == target_boost(rpm, 1000)
                 rate   == IF target > engine.boost_pressure
                           THEN config.turbo.spool_rate
                           ELSE config.turbo.boost_decay_rate
                 moved  == engine.boost_pressure
                             + ((((target - engine.boost_pressure) * rate) \div 1000)
                                  * run.timestep) \div 1000
             IN  /\ engine'.boost_pressure
                      = Max(0, Min(config.turbo.max_boost_pressure, moved))
                 /\ (rpm < config.turbo.min_rpm_for_boost
                       \/ rpm > config.turbo.max_rpm_for_boost) => target = 0
                 /\ rate * run.timestep <= 1000000
                      => \/ /\ engine.boost_pressure <= engine'.boost_pressure
                            /\ engine'.boost_pressure <= target
                         \/ /\ target <= engine'.boost_pressure
                            /\ engine'.boost_pressure <= engine.boost_pressure]_vars

\* C26: a spool-up step with rate * dt < 1 has left the boost strictly between
\* 0 and the target
C26_SpoolingBelowTarget ==
    /\ pc = "running"
    /\ vehicle \in ValidVehicles
    /\ config.turbo.enabled
    /\ Len(snapshots) > 0
    /\ config.turbo.spool_rate * run.timestep < 1000000
    /\ 0 < engine.boost_pressure
    /\ engine.boost_pressure < target_boost(snapshots[Len(snapshots)].rpm, 1000)

\* C27: the grip lost to wear is capped: for every run length and wear rate
\* the wear multiplier 1 - tire_wear * max_wear_grip_loss stays
\* >= 1 - max_wear_grip_loss, and the tire grip factor and the maximum traction
\* force are never negative.
C27_WearGripLossCapped ==
    (vehicle \in ValidVehicles /\ pc \in {"running", "done"})
        => /\ 1000 - (((engine.tire_wear \div 1000) * config.tires.max_wear_grip_loss)
                         \div 1000)
                >= 1000 - config.tires.max_wear_grip_loss
           /\ get_tire_grip_factor(engine) >= 0
           /\ calculate_max_traction_force(engine, run.velocity, 0) >= 0

\* C28: a step computes the acceleration in two passes: a provisional
\* acceleration from the forces at weight-transfer acceleration 0, then the
\* final one from the forces evaluated once more with the provisional value;
\* the final value is the one recorded, integrated into the velocity and given
\* to the tire update.
C28_TwoForcePasses ==
    [][(vehicle \in ValidVehicles /\ pc = "running" /\ pc' \in {"running", "done"})
          => LET e   == [engine' EXCEPT !.tire_temp = engine.tire_temp,
                                        !.tire_wear = engine.tire_wear]
                 rpm == snapshots'[Len(snapshots')].rpm
                 provisional ==
                     acceleration_of(e, calculate_forces(e, run.velocity, run'.gear, rpm, 0))
                 final ==
                     acceleration_of(e, calculate_forces(e, run.velocity, run'.gear, rpm,
                                                         provisional))
             IN  /\ snapshots'[Len(snapshots')].acceleration = final
                 /\ run'.velocity = Max(0, run.velocity + (final * run.timestep) \div 1000)
                 /\ engine'.tire_temp
                      = update_tire_temperature(e, final, run.velocity,
                                                run.timestep).tire_temp]_vars

\* C28: a run in progress in a state where the second pass changes the
\* acceleration of the first
C28_SecondPassMatters ==
    /\ pc = "running"
    /\ vehicle \in ValidVehicles
    /\ Len(snapshots) > 0
    /\ run.gear >= 1
    /\ acceleration_of(engine,
           calculate_forces(engine, run.velocity, run.gear,
                            snapshots[Len(snapshots)].rpm, 0))
         # acceleration_of(engine,
               calculate_forces(engine, run.velocity, run.gear,
                                snapshots[Len(snapshots)].rpm,
                                acceleration_of(engine,
                                    calculate_forces(engine, run.velocity, run.gear,
                                                     snapshots[Len(snapshots)].rpm, 0))))

-----------------------------------------------------------------------------
(* Properties of engine instances *)

-----------------------------------------------------------------------------
(* Properties of the service and the baseline engines *)

\* C29: in ImprovedPhysicsEngine, DRS is active after update_drs exactly when
\* the vehicle speed is at least 150 km/h (DRS available, on a straight), and
\* inactive at every lower speed.
C29_DrsActiveFrom150Kmh ==
    (service.kind = "improved" /\ service.status = "running")
        => (service.drs_active <=> service.velocity * 36 >= 150000 * 10)

\* C30: for a known vehicle id, a request served with the basic PhysicsEngine
\* never ends in an error: run_simulation accepts the arguments the service
\* passes.
C30_BasicEngineRequestSucceeds ==
    (service.kind = "basic" /\ service.vehicle_id \in VehicleIds)
        => service.status \notin {"http_500", "http_404"} /\ service.error = "none"

=============================================================================
